---- MODULE Spec2Model ----
(***************************************************************************)
(* The almanac library (src/lib/almanac/src/lib.rs): the chain of value    *)
(* types, the overlap-as-equal key ordering, the translation map, the      *)
(* recursive walk and the two queries of Almanac, with Almanac::from_str   *)
(* as the state machine that builds the map section by section.            *)
(***************************************************************************)
EXTENDS Integers, Sequences, FiniteSets, TLC

(***************************************************************************)
(* Bounds of the model.                                                    *)
(***************************************************************************)
\* starts of mapping lines (source and destination) and seed values: 0..MaxVal
MaxVal == 2
\* lengths of mapping lines and of seed ranges: 0..MaxLen, 1..MaxLen
MaxLen == 2
\* mapping lines in a bounded input text
MaxLines == 2
\* a bounded input text has sections for the sources Seed..MaxSource
MaxSource == 1
\* sections in a bounded input text
MaxSections == 2
\* numbers on the seeds line of a bounded input text
MaxSeeds == 2

(***************************************************************************)
(* Option<T>: None, Some(x).                                               *)
(***************************************************************************)
None == <<>>
Some(x) == <<x>>

\* u64::MAX, the start value of the fold in get_lowest_location_of_seed_ranges.
\* The model's numbers stay far below it; it is the largest number TLC holds.
U64_MAX == 2147483647

(***************************************************************************)
(* enum ValueType, in declaration order (the derived Ord is this order).   *)
(***************************************************************************)
Seed == 0
Soil == 1
Fertilizer == 2
Water == 3
Light == 4
Temperature == 5
Humidity == 6
Location == 7
ValueType == Seed..Location

\* a successor that passes over a type
next_variant_skip(t) ==
    IF t = Location THEN None
    ELSE IF t + 2 > Location THEN Some(Location) ELSE Some(t + 2)

next_variant(t) == IF t = Location THEN None ELSE Some(t + 1)

(***************************************************************************)
(* struct TranslationValue { typ, range: start..end }                      *)
(***************************************************************************)
new(typ, from, to) == [typ |-> typ, start |-> from, end |-> to]

\* Range<u64>: start..end
Range(from, to) == [start |-> from, end |-> to]

\* an ordering by type and start alone
cmp_by_start(self, other) ==
    IF self.typ < other.typ THEN "Less"
    ELSE IF self.typ > other.typ THEN "Greater"
    ELSE IF self.start < other.start THEN "Less"
    ELSE IF self.start > other.start THEN "Greater"
    ELSE "Equal"

\* impl Ord for TranslationValue
cmp(self, other) ==
    IF self.typ < other.typ THEN "Less"
    ELSE IF self.typ > other.typ THEN "Greater"
    ELSE IF self.end <= other.start THEN "Less"
    ELSE IF self.start >= other.end THEN "Greater"
    ELSE "Equal"

(***************************************************************************)
(* struct TranslationMap(BTreeMap<TranslationValue, TranslationValue>):    *)
(* the entries [key, value] in the order the tree holds them.  A lookup    *)
(* compares the probe with the stored keys in ascending order and stops at *)
(* the first that is not Greater (the search of a tree node).  This is the *)
(* tree's answer whenever the stored keys are pairwise non-overlapping,    *)
(* and for any keys while the map fits one node (11 entries).              *)
(***************************************************************************)
RECURSIVE search(_, _, _)
search(m, key, i) ==
    IF i > Len(m) THEN [found |-> FALSE, idx |-> i]
    ELSE LET c == cmp(key, m[i].key)
         IN IF c = "Greater" THEN search(m, key, i + 1)
            ELSE IF c = "Equal" THEN [found |-> TRUE, idx |-> i]
            ELSE [found |-> FALSE, idx |-> i]

\* BTreeMap::insert: an Equal key keeps the stored key and takes the new value
insert(m, key, value) ==
    LET r == search(m, key, 1)
    IN IF r.found
       THEN [m EXCEPT ![r.idx].value = value]
       ELSE SubSeq(m, 1, r.idx - 1) \o << [key |-> key, value |-> value] >>
            \o SubSeq(m, r.idx, Len(m))

contains_key(m, key) == search(m, key, 1).found

add_translation(m, from, to) == insert(m, from, to)

\* the closure of try_for_each in from_str: one mapping line "dest source length"
add_line(m, source, destination, dest_start, source_start, length) ==
    add_translation(m,
        new(source, source_start, length + source_start),
        new(destination, dest_start, length + dest_start))

\* from_str, "Fill in the blank spaces": keys is the snapshot taken before the loop
RECURSIVE fill_loop(_, _, _, _, _, _)
fill_loop(m, keys, i, from, source, destination) ==
    IF i > Len(keys) THEN m
    ELSE LET value == keys[i].start
             new_key == new(source, from, value)
         IN IF value = 0
            THEN fill_loop(m, keys, i + 1, value, source, destination)
            ELSE fill_loop(
                    IF ~contains_key(m, new_key)
                    THEN add_translation(m, new_key, new(destination, from, value))
                    ELSE m,
                    keys, i + 1, value, source, destination)

fill_gaps(m, source, destination) ==
    LET mine == SelectSeq(m, LAMBDA e: e.key.typ = source)
        keys == [i \in 1..Len(mine) |-> mine[i].key]
    IN fill_loop(m, keys, 1, 0, source, destination)

(***************************************************************************)
(* TranslationMap::walk                                                    *)
(***************************************************************************)
Max(a, b) == IF a >= b THEN a ELSE b
Min(a, b) == IF a <= b THEN a ELSE b
abs_diff(a, b) == IF a >= b THEN a - b ELSE b - a

\* a minimum that needs two values to compare
min_of_several(options) ==
    LET vals == {o[1] : o \in {p \in options : p # None}}
    IN IF Cardinality(vals) < 2 THEN None
       ELSE Some(CHOOSE v \in vals : \A w \in vals : v <= w)

\* Iterator::min over the Some results (flat_map drops None)
min(options) ==
    LET vals == {o[1] : o \in {p \in options : p # None}}
    IN IF vals = {} THEN None
       ELSE Some(CHOOSE v \in vals : \A w \in vals : v <= w)

\* a filter by type alone
hit_any(key, from, range) == key.typ = from

\* the filter of walk: the entries of the current type the range is hitting
hit(key, from, range) ==
    key.typ = from /\ range.start <= key.end /\ key.start <= range.end

walk_keys(m, from, range) == SelectSeq(m, LAMBDA e: hit(e.key, from, range))

\* mutant of new_range: the offset is added whatever its direction
new_range_unsigned(key, value, range) ==
    LET diff == abs_diff(value.start, key.start)
    IN Range(Max(key.start, range.start) + diff, Min(key.end, range.end) + diff)

\* the range translation inside the flat_map closure
new_range(key, value, range) ==
    LET diff == abs_diff(value.start, key.start)
    IN IF key.start < value.start
       THEN Range(Max(key.start, range.start) + diff, Min(key.end, range.end) + diff)
       ELSE Range(Max(key.start, range.start) - diff, Min(key.end, range.end) - diff)

RECURSIVE walk(_, _, _)
walk(m, from, range) ==
    LET keys == walk_keys(m, from, range)
        next == next_variant(from)
    IN IF next = None THEN Some(range.start)
       ELSE IF keys = <<>> THEN walk(m, next[1], range)
       ELSE min({walk(m, next[1], new_range(keys[i].key, keys[i].value, range))
                    : i \in 1..Len(keys)})

get_location_of_seed(m, seed) == walk(m, Seed, Range(seed, seed))

\* mutant of translate_range: only the start of the range is walked
translate_range_start(m, source_type, source_range) ==
    walk(m, source_type, Range(source_range.start, source_range.start))

translate_range(m, source_type, source_range) == walk(m, source_type, source_range)

(***************************************************************************)
(* struct Almanac { seeds, translation } and its queries                   *)
(***************************************************************************)
\* slice::chunks(2): the chunks of at most two elements, the last may hold one
chunks(s) ==
    [i \in 1..((Len(s) + 1) \div 2) |-> SubSeq(s, 2 * i - 1, Min(2 * i, Len(s)))]

\* mutant of fold_min: the last result wins
fold_last(acc, result) == result

\* "if result < min { min = result }"
fold_min(acc, result) == IF result < acc THEN result ELSE acc

\* the body of the for loop from chunk i on; chunk[1] of a one-element chunk
\* is out of bounds: the call panics
Panic == <<"panic", "index out of bounds">>

RECURSIVE range_loop(_, _, _, _)
range_loop(m, cs, i, acc) ==
    IF i > Len(cs) THEN Some(acc)
    ELSE IF Len(cs[i]) < 2 THEN Panic
    ELSE LET range == Range(cs[i][1], cs[i][1] + cs[i][2])
             result == translate_range(m, Seed, range)
         IN IF result = None THEN None
            ELSE range_loop(m, cs, i + 1, fold_min(acc, result[1]))

get_lowest_location_of_seed_ranges(m, seeds_) ==
    range_loop(m, chunks(seeds_), 1, U64_MAX)

\* mutant of get_lowest_location: folded from u64::MAX as the range query is
get_lowest_location_folded(m, seeds_) ==
    IF seeds_ = <<>> THEN Some(U64_MAX)
    ELSE min({get_location_of_seed(m, seeds_[i]) : i \in 1..Len(seeds_)})

get_lowest_location(m, seeds_) ==
    min({get_location_of_seed(m, seeds_[i]) : i \in 1..Len(seeds_)})

(***************************************************************************)
(* The input texts from_str reads.  A text is the seeds line and a list of *)
(* sections, each a header (the source type it names) and its mapping      *)
(* lines <<dest_start, source_start, length>>.                             *)
(***************************************************************************)
\* tests::EXAMPLE
EXAMPLE_SEEDS == <<79, 14, 55, 13>>

EXAMPLE ==
    << [source |-> Seed,        lines |-> << <<50, 98, 2>>, <<52, 50, 48>> >>],
       [source |-> Soil,        lines |-> << <<0, 15, 37>>, <<37, 52, 2>>, <<39, 0, 15>> >>],
       [source |-> Fertilizer,  lines |-> << <<49, 53, 8>>, <<0, 11, 42>>, <<42, 0, 7>>,
                                             <<57, 7, 4>> >>],
       [source |-> Water,       lines |-> << <<88, 18, 7>>, <<18, 25, 70>> >>],
       [source |-> Light,       lines |-> << <<45, 77, 23>>, <<81, 45, 19>>, <<68, 64, 13>> >>],
       [source |-> Temperature, lines |-> << <<0, 69, 1>>, <<1, 0, 69>> >>],
       [source |-> Humidity,    lines |-> << <<60, 56, 37>>, <<56, 93, 4>> >>] >>

\* the seed lines and mapping lines of the bounded texts
SeedLists == UNION {[1..n -> 0..MaxVal] : n \in 0..MaxSeeds}
Lines == (0..MaxVal) \X (0..MaxVal) \X (0..MaxLen)

(***************************************************************************)
(* State: Almanac::from_str reading its text, then the built Almanac.      *)
(***************************************************************************)
VARIABLES
    input,      \* the text read: Example, or Bounded(n): any text of at most n mapping
                \* lines within the bounds
    seeds,      \* Almanac::seeds
    map,        \* Almanac::translation
    pc,         \* in from_str: "start" (seeds read), "lines" (in a section), "header"
                \* (a section done); "ready": Ok(Almanac); "failed": Err;
                \* "panicked": a query panicked
    sec,        \* sections begun so far
    ln,         \* mapping lines read so far: of the current section (example text),
                \* of the whole text (bounded text)
    source,     \* source type of the section being read
    key,        \* the header of the last section begun, as the pair of types it names
                \* (None: no header read, or a section with no first line)
    mappings,   \* the mapping lines read so far: [source, dest_start, source_start, length]
    query,      \* the last query answered: "none", "points", "ranges", "pool"
    result,     \* its result
    workers,    \* worker pool: the number of workers (0: no pool)
    task,       \* worker pool: per seed range, [st, r]: "queued", "running", "done" with
                \* its result r, "folded"
    acc,        \* worker pool: the accumulator of the reduction
    nodes,      \* Network::nodes: node |-> <<left, right>>
    seq,        \* Network::seq: the instructions, "L" or "R"
    find,       \* find_steps_required_for: the node looked for
    current_node, \* find_steps_required_for: the node the walk is at
    steps,      \* find_steps_required_for: the steps counted
    inst,       \* find_steps_required_for: instructions of the current pass done
    npc,        \* find_steps_required_for: "idle" (not called), "while" (at the loop
                \* test), "for" (in a pass over seq), "returned": Ok(steps),
                \* "failed": Err(GetNode)
    time,       \* Race::time
    distance,   \* Race::distance
    start,      \* find_winning_conditions_amount: the hold time being tried
    winning,    \* find_winning_conditions_amount: the value returned
    rpc,        \* find_winning_conditions_amount: "idle" (no Race), "loop",
                \* "returned", "panicked" (arithmetic overflow with overflow checks)
    overflow_checks, \* whether the build panics on arithmetic overflow (debug) or
                \* wraps (release)
    cards,      \* ScratchCards: per card [winning_numbers, numbers, amount]
    card_key,   \* calculate_copies_and_get_total: the keys of 0..len done
    total,      \* calculate_copies_and_get_total: the value returned
    cpc         \* calculate_copies_and_get_total: "idle" (no cards), "each"
                \* (in the for_each), "returned"

pool == <<workers, task, acc>>

network == <<nodes, seq, find, current_node, steps, inst, npc>>

race == <<time, distance, start, winning, rpc, overflow_checks>>

scratch == <<cards, card_key, total, cpc>>

vars == <<input, seeds, map, pc, sec, ln, source, key, mappings, query, result, pool,
          network, race, scratch>>

\* no Race yet
NoRace ==
    /\ time = 0
    /\ distance = 0
    /\ start = 0
    /\ winning = 0
    /\ rpc = "idle"
    /\ overflow_checks = FALSE

\* no ScratchCards yet
NoCards ==
    /\ cards = <<>>
    /\ card_key = 0
    /\ total = 0
    /\ cpc = "idle"

\* the Network before Network::from_str is called
NoNetwork ==
    /\ nodes = <<>>
    /\ seq = <<>>
    /\ find = 0
    /\ current_node = 0
    /\ steps = 0
    /\ inst = 0
    /\ npc = "idle"

\* a header match that takes any pair naming a later type
match_key_forward(k) == IF k[1] < k[2] THEN Some(k) ELSE None

\* match key: the header "X-to-Y map:" read as the pair <<X, Y>>; Some(source,
\* destination) for the seven arms, None for `invalid => Err(InvalidMapKey)`
match_key(k) ==
    CASE k = <<Seed, Soil>> -> Some(<<Seed, Soil>>)
      [] k = <<Soil, Fertilizer>> -> Some(<<Soil, Fertilizer>>)
      [] k = <<Fertilizer, Water>> -> Some(<<Fertilizer, Water>>)
      [] k = <<Water, Light>> -> Some(<<Water, Light>>)
      [] k = <<Light, Temperature>> -> Some(<<Light, Temperature>>)
      [] k = <<Temperature, Humidity>> -> Some(<<Temperature, Humidity>>)
      [] k = <<Humidity, Location>> -> Some(<<Humidity, Location>>)
      [] OTHER -> None

\* the headers of the bounded texts: any pair of the types up to MaxSource + 1
Keys == (Seed..(MaxSource + 1)) \X (Seed..(MaxSource + 1))

Example == [kind |-> "example", lines |-> 0]
Bounded(n) == [kind |-> "bounded", lines |-> n]

\* the state after the seeds line, with BTreeMap::new()
Start(text, seed_lists) ==
    /\ input = text
    /\ seeds \in seed_lists
    /\ map = <<>>
    /\ pc = "start"
    /\ sec = 0
    /\ ln = 0
    /\ source = Seed
    /\ key = None
    /\ mappings = {}
    /\ query = "none"
    /\ result = None
    /\ task = [i \in 1..Len(chunks(seeds)) |-> [st |-> "queued", r |-> 0]]
    /\ acc = U64_MAX
    /\ NoNetwork
    /\ NoRace
    /\ NoCards

\* for map_vec in maps: the section header names the (source, destination) pair
ParseHeader ==
    /\ pc \in {"start", "header"}
    /\ \E k \in IF input = Example
                THEN {<<EXAMPLE[i].source, EXAMPLE[i].source + 1>> :
                         i \in {sec + 1} \cap DOMAIN EXAMPLE}
                ELSE {x \in Keys : sec < MaxSections /\ x[1] <= MaxSource} :
          /\ match_key(k) # None
          /\ key' = k
          /\ source' = match_key(k)[1][1]
    /\ sec' = sec + 1
    /\ ln' = IF input = Example THEN 0 ELSE ln
    /\ pc' = "lines"
    /\ UNCHANGED <<network, race, scratch, input, seeds, map, mappings, query, result,
                   pool>>

\* a section with no first line (NoKeyFound: a text with no section, a doubled or
\* trailing blank line) or a header naming no pair of the chain (InvalidMapKey)
HeaderError ==
    /\ pc \in {"start", "header"}
    /\ \E k \in {None} \cup Keys :
          /\ k # None => match_key(k) = None
          /\ key' = k
    /\ pc' = "failed"
    /\ UNCHANGED <<network, race, scratch, input, seeds, map, sec, ln, source,
                   mappings, query, result,
                   pool>>

\* numbers.try_for_each: one mapping line
ParseLine ==
    /\ pc = "lines"
    /\ \E l \in IF input = Example
                THEN {EXAMPLE[sec].lines[k] : k \in {ln + 1} \cap DOMAIN EXAMPLE[sec].lines}
                ELSE {x \in Lines : ln < input.lines} :
          /\ map' = add_line(map, source, match_key(key)[1][2], l[1], l[2], l[3])
          /\ mappings' = mappings \cup
                {[source |-> source, dest_start |-> l[1], source_start |-> l[2],
                  length |-> l[3]]}
    /\ ln' = ln + 1
    /\ UNCHANGED <<network, race, scratch, input, seeds, pc, sec, source, key, query,
                   result, pool>>

\* the end of a section: fill in the blank spaces, then on to the next section
FillGaps ==
    /\ pc = "lines"
    /\ input = Example => ln = Len(EXAMPLE[sec].lines)
    /\ map' = fill_gaps(map, source, match_key(key)[1][2])
    /\ pc' = "header"
    /\ UNCHANGED <<network, race, scratch, input, seeds, sec, ln, source, key,
                   mappings, query,
                   result, pool>>

\* the end of the text: Ok(Self { seeds, translation })
Finish ==
    /\ pc = "header"
    /\ input = Example => sec = Len(EXAMPLE)
    /\ pc' = "ready"
    /\ UNCHANGED <<network, race, scratch, input, seeds, map, sec, ln, source, key,
                   mappings, query,
                   result, pool>>

GetLowestLocation ==
    /\ pc = "ready"
    /\ query' = "points"
    /\ result' = get_lowest_location(map, seeds)
    /\ UNCHANGED <<network, race, scratch, input, seeds, map, pc, sec, ln, source, key,
                   mappings, pool>>

\* a range query that takes the seeds out of the Almanac as it reads them
GetLowestLocationOfSeedRangesTaking ==
    /\ pc = "ready"
    /\ query' = "ranges"
    /\ result' = get_lowest_location_of_seed_ranges(map, seeds)
    /\ seeds' = <<>>
    /\ pc' = IF result' = Panic THEN "panicked" ELSE pc
    /\ UNCHANGED <<network, race, scratch, input, map, sec, ln, source, key, mappings,
                   pool>>

GetLowestLocationOfSeedRanges ==
    /\ pc = "ready"
    /\ query' = "ranges"
    /\ result' = get_lowest_location_of_seed_ranges(map, seeds)
    /\ pc' = IF result' = Panic THEN "panicked" ELSE pc
    /\ UNCHANGED <<network, race, scratch, input, seeds, map, sec, ln, source, key,
                   mappings, pool>>

\* from_str on any text within the bounds, then the queries
Init == Start(Bounded(MaxLines), SeedLists) /\ workers = 0

Next ==
    \/ ParseHeader
    \/ HeaderError
    \/ ParseLine
    \/ FillGaps
    \/ Finish
    \/ GetLowestLocation
    \/ GetLowestLocationOfSeedRanges

Spec == Init /\ [][Next]_vars

\* from_str on longer texts with an empty seeds line: the tables
InitBuild == Start(Bounded(MaxLines + 1), {<<>>}) /\ workers = 0

SpecBuild == InitBuild /\ [][Next]_vars

\* from_str on tests::EXAMPLE, the seeds line cut to any slice of the example's
InitExample ==
    /\ Start(Example, {SubSeq(EXAMPLE_SEEDS, i, j) : i \in 1..5, j \in 0..4})
    /\ workers = 0

NextExample ==
    \/ ParseHeader
    \/ ParseLine
    \/ FillGaps
    \/ Finish
    \/ GetLowestLocation
    \/ GetLowestLocationOfSeedRanges

SpecExample == InitExample /\ [][NextExample]_vars

(***************************************************************************)
(* The range query run by a pool of N workers: one task per seed range,    *)
(* each resolved by translate_range on the shared map, the results folded  *)
(* into the accumulator one at a time in the order the tasks complete.     *)
(***************************************************************************)
MaxWorkers == 8

\* seeds lines as long as the example's at most, over the numbers of the example's
PoolSeedLists ==
    UNION {[1..n -> {EXAMPLE_SEEDS[i] : i \in DOMAIN EXAMPLE_SEEDS}]
              : n \in 0..Len(EXAMPLE_SEEDS)}

\* the pool is created with N workers
PoolStart ==
    /\ pc = "ready"
    /\ workers = 0
    /\ \E n \in 1..MaxWorkers : workers' = n
    /\ UNCHANGED <<network, race, scratch, input, seeds, map, pc, sec, ln, source, key,
                   mappings,
                   query, result,
                   task, acc>>

Running == {i \in DOMAIN task : task[i].st = "running"}

\* a free worker takes a queued range
Take(i) ==
    /\ pc = "ready"
    /\ query # "pool"
    /\ task[i].st = "queued"
    /\ Cardinality(Running) < workers
    /\ task' = [task EXCEPT ![i].st = "running"]
    /\ UNCHANGED <<network, race, scratch, input, seeds, map, pc, sec, ln, source, key,
                   mappings,
                   query, result,
                   workers, acc>>

\* the worker resolves its range: the body of the for loop up to the fold
Complete(i) ==
    /\ pc = "ready"
    /\ task[i].st = "running"
    /\ LET chunk == chunks(seeds)[i]
       IN IF Len(chunk) < 2
          THEN /\ pc' = "panicked"
               /\ query' = "pool"
               /\ result' = Panic
               /\ UNCHANGED task
          ELSE /\ task' = [task EXCEPT ![i] =
                    [st |-> "done",
                     r |-> translate_range(map, Seed,
                                Range(chunk[1], chunk[1] + chunk[2]))[1]]]
               /\ UNCHANGED <<pc, query, result>>
    /\ UNCHANGED <<network, race, scratch, input, seeds, map, sec, ln, source, key,
                   mappings, workers,
                   acc>>

\* the reduction takes one finished result
Fold(i) ==
    /\ pc = "ready"
    /\ task[i].st = "done"
    /\ acc' = fold_min(acc, task[i].r)
    /\ task' = [task EXCEPT ![i].st = "folded"]
    /\ UNCHANGED <<network, race, scratch, input, seeds, map, pc, sec, ln, source, key,
                   mappings,
                   query, result,
                   workers>>

\* every result is folded: Some(min)
PoolFinish ==
    /\ pc = "ready"
    /\ query # "pool"
    /\ \A i \in DOMAIN task : task[i].st = "folded"
    /\ query' = "pool"
    /\ result' = Some(acc)
    /\ UNCHANGED <<network, race, scratch, input, seeds, map, pc, sec, ln, source, key,
                   mappings, pool>>

\* from_str on tests::EXAMPLE with any of these seeds lines, then the pool
InitPool == Start(Example, PoolSeedLists) /\ workers = 0

NextPool ==
    \/ ParseHeader
    \/ ParseLine
    \/ FillGaps
    \/ Finish
    \/ PoolStart
    \/ \E i \in DOMAIN task : Take(i)
    \/ \E i \in DOMAIN task : Complete(i)
    \/ \E i \in DOMAIN task : Fold(i)
    \/ PoolFinish

SpecPool == InitPool /\ [][NextPool]_vars

(***************************************************************************)
(* network_nodes: Network::find_steps_required_for.  A Node is its name; the *)
(* names are numbered in their string order, the order of the BTreeMap.    *)
(***************************************************************************)
MaxNode == 3
MaxSeq == 2
MaxSteps == 12

AAA == 1
BBB == 2
CCC == 3
DDD == 4
EEE == 5
GGG == 6
ZZZ == 7

\* tests::EXAMPLE_1
EXAMPLE_1 ==
    [seq |-> <<"R", "L">>,
     nodes |-> [n \in AAA..ZZZ |->
                  CASE n = AAA -> <<BBB, CCC>>
                    [] n = BBB -> <<DDD, EEE>>
                    [] n = CCC -> <<ZZZ, GGG>>
                    [] OTHER -> <<n, n>>]]

\* tests::EXAMPLE_2
EXAMPLE_2 ==
    [seq |-> <<"L", "L", "R">>,
     nodes |-> [n \in {AAA, BBB, ZZZ} |->
                  CASE n = AAA -> <<BBB, BBB>>
                    [] n = BBB -> <<AAA, ZZZ>>
                    [] OTHER -> <<ZZZ, ZZZ>>]]

\* the networks within the bounds: any set of the first MaxNode names, each with
\* any two of these names as its address, under any sequence of at most MaxSeq
\* instructions
Networks ==
    {[seq |-> s, nodes |-> f] :
        s \in UNION {[1..n -> {"L", "R"}] : n \in 0..MaxSeq},
        f \in UNION {[d -> (1..MaxNode) \X (1..MaxNode)] : d \in SUBSET (1..MaxNode)}}

\* impl Index<&Instruction> for NodeAddress
index(address, i) == IF i = "L" THEN address[1] ELSE address[2]

\* self.nodes.keys().next()
first_key(ns) == CHOOSE n \in DOMAIN ns : \A o \in DOMAIN ns : n <= o

almanac == <<input, seeds, map, pc, sec, ln, source, key, mappings, query, result, pool>>

\* find_steps_required_for(find) is called: steps = 0, current_node = the first key
Call ==
    /\ npc = "built"
    /\ \E f \in (1..MaxNode) \cup {ZZZ} : find' = f
    /\ steps' = 0
    /\ inst' = 0
    /\ IF DOMAIN nodes = {}
       THEN npc' = "failed" /\ UNCHANGED current_node
       ELSE npc' = "while" /\ current_node' = first_key(nodes)
    /\ UNCHANGED <<almanac, race, scratch, nodes, seq>>

\* while current_node != find
While ==
    /\ npc = "while"
    /\ npc' = IF current_node # find THEN "for" ELSE "returned"
    /\ inst' = 0
    /\ UNCHANGED <<almanac, race, scratch, nodes, seq, find, current_node, steps>>

\* for inst in &self.seq: one instruction
Step ==
    /\ npc = "for"
    /\ inst < Len(seq)
    /\ steps < MaxSteps
    /\ IF current_node \in DOMAIN nodes
       THEN /\ steps' = steps + 1
            /\ current_node' = index(nodes[current_node], seq[inst + 1])
            /\ inst' = inst + 1
            /\ UNCHANGED npc
       ELSE /\ npc' = "failed"
            /\ UNCHANGED <<current_node, steps, inst>>
    /\ UNCHANGED <<almanac, race, scratch, nodes, seq, find>>

\* the sequence is through: back to the loop test
Pass ==
    /\ npc = "for"
    /\ inst = Len(seq)
    /\ npc' = "while"
    /\ UNCHANGED <<almanac, race, scratch, nodes, seq, find, current_node, steps, inst>>

\* no Almanac text and no Network yet
InitNetwork ==
    /\ Start(Bounded(0), {<<>>})
    /\ workers = 0

\* Network::from_str on the texts of the tests and on any network within the bounds
FromStr ==
    /\ npc = "idle"
    /\ \E n \in Networks \cup {EXAMPLE_1, EXAMPLE_2} :
          /\ nodes' = n.nodes
          /\ seq' = n.seq
    /\ npc' = "built"
    /\ UNCHANGED <<almanac, race, scratch, find, current_node, steps, inst>>

NextNetwork ==
    \/ FromStr
    \/ Call
    \/ While
    \/ Step
    \/ Pass

SpecNetwork == InitNetwork /\ [][NextNetwork]_vars

(***************************************************************************)
(* boat_race: Race::find_winning_conditions_amount.  u64 is modelled as a   *)
(* word of WordBits bits: arithmetic that leaves the word panics when the  *)
(* build checks overflow and wraps when it does not.                       *)
(***************************************************************************)
MaxTime == 6
MaxDistance == 10
WordBits == 8

Word == 2 ^ WordBits

\* tests::EXAMPLE as races
EXAMPLE_RACES == {<<7, 9>>, <<15, 40>>, <<30, 200>>}

\* Boat::default()
default == [speed |-> 0, distance_traveled |-> 0]

\* an arithmetic result in the word, or not
fits(x) == 0 <= x /\ x < Word

hold_button_for(boat, millis) == [boat EXCEPT !.speed = (@ + millis) % Word]

travel_for(boat, millis) == [boat EXCEPT !.distance_traveled = (boat.speed * millis) % Word]

has_won(race_distance, boat) == boat.distance_traveled > race_distance

\* Race::new(time, distance), then find_winning_conditions_amount: start = 1
New ==
    /\ rpc = "idle"
    /\ \E r \in ((0..MaxTime) \X (0..MaxDistance)) \cup EXAMPLE_RACES :
          /\ time' = r[1]
          /\ distance' = r[2]
    /\ overflow_checks' \in BOOLEAN
    /\ start' = 1
    /\ rpc' = "loop"
    /\ UNCHANGED <<almanac, network, scratch, winning>>

\* one turn of the loop, and on a win the return value
Try ==
    /\ rpc = "loop"
    /\ LET held == hold_button_for(default, start)
           boat == travel_for(held, (time - start) % Word)
           left == (fits(time - start) /\ fits(held.speed * ((time - start) % Word)))
           diff == abs_diff(start, (time - start) % Word)
       IN IF overflow_checks /\ ~left
          THEN rpc' = "panicked" /\ UNCHANGED <<start, winning>>
          ELSE IF has_won(distance, boat)
          THEN IF overflow_checks /\ ~fits(diff + 1)
               THEN rpc' = "panicked" /\ UNCHANGED <<start, winning>>
               ELSE /\ winning' = (diff + 1) % Word
                    /\ rpc' = "returned"
                    /\ UNCHANGED start
          ELSE IF overflow_checks /\ ~fits(start + 1)
               THEN rpc' = "panicked" /\ UNCHANGED <<start, winning>>
               ELSE /\ start' = (start + 1) % Word
                    /\ UNCHANGED <<rpc, winning>>
    /\ UNCHANGED <<almanac, network, scratch, time, distance, overflow_checks>>

InitRace ==
    /\ Start(Bounded(0), {<<>>})
    /\ workers = 0

NextRace ==
    \/ New
    \/ Try

SpecRace == InitRace /\ [][NextRace]_vars

(***************************************************************************)
(* scratchcard: ScratchCards::calculate_copies_and_get_total.              *)
(***************************************************************************)
MaxCards == 4

\* ScratchCard::from_str on one line: amount is 1
ScratchCard(winning_numbers, numbers) ==
    [winning_numbers |-> winning_numbers, numbers |-> numbers, amount |-> 1]

\* tests::EXAMPLE, parsed
EXAMPLE_CARDS ==
    << ScratchCard(<<41, 48, 83, 86, 17>>, <<83, 86, 6, 31, 17, 9, 48, 53>>),
       ScratchCard(<<13, 32, 20, 16, 61>>, <<61, 30, 68, 82, 17, 32, 24, 19>>),
       ScratchCard(<<1, 21, 53, 59, 44>>, <<69, 82, 63, 72, 16, 21, 14, 1>>),
       ScratchCard(<<41, 92, 73, 84, 69>>, <<59, 84, 76, 51, 58, 5, 54, 83>>),
       ScratchCard(<<87, 83, 26, 28, 32>>, <<88, 30, 70, 12, 93, 22, 82, 36>>),
       ScratchCard(<<31, 18, 13, 56, 72>>, <<74, 77, 10, 23, 35, 67, 36, 11>>) >>

\* the texts read: tests::EXAMPLE, and any text of at most MaxCards of its lines
CardTexts ==
    {EXAMPLE_CARDS} \cup
    UNION {[1..n -> {EXAMPLE_CARDS[i] : i \in DOMAIN EXAMPLE_CARDS}] : n \in 0..MaxCards}

\* the winning numbers that are among the card's numbers, each counted
total_winning_numbers(card) ==
    Cardinality({i \in DOMAIN card.winning_numbers :
                    \E j \in DOMAIN card.numbers :
                        card.numbers[j] = card.winning_numbers[i]})

\* a card that gets one copy whatever the amount of the card that won it
add_copies_one(card, copies) == [card EXCEPT !.amount = @ + 1]

add_copies(card, copies) == [card EXCEPT !.amount = @ + copies]

RECURSIVE sum(_)
sum(amounts) == IF amounts = <<>> THEN 0 ELSE Head(amounts) + sum(Tail(amounts))

\* ScratchCards::from_str
Parse ==
    /\ cpc = "idle"
    /\ cards' \in CardTexts
    /\ card_key' = 0
    /\ cpc' = "each"
    /\ UNCHANGED <<almanac, network, race, total>>

\* the closure of (0..self.0.len()).for_each for key = card_key; the cards are
\* numbered from 1 here, so key is card number card_key + 1
Each ==
    /\ cpc = "each"
    /\ card_key < Len(cards)
    /\ LET card == cards[card_key + 1]
           winnings == total_winning_numbers(card)
           range == (card_key + 2)..(card_key + 1 + winnings)
       IN cards' = [i \in DOMAIN cards |->
                      IF winnings > 0 /\ i \in range
                      THEN add_copies(cards[i], card.amount)
                      ELSE cards[i]]
    /\ card_key' = card_key + 1
    /\ UNCHANGED <<almanac, network, race, total, cpc>>

\* Ok(self.0.iter().map(|card| card.amount).sum())
Total ==
    /\ cpc = "each"
    /\ card_key = Len(cards)
    /\ total' = sum([i \in DOMAIN cards |-> cards[i].amount])
    /\ cpc' = "returned"
    /\ UNCHANGED <<almanac, network, race, cards, card_key>>

InitCards ==
    /\ Start(Bounded(0), {<<>>})
    /\ workers = 0

NextCards ==
    \/ Parse
    \/ Each
    \/ Total

SpecCards == InitCards /\ [][NextCards]_vars

(***************************************************************************)
(* Claims.                                                                 *)
(***************************************************************************)
Built == pc = "ready"
Answered(q) == pc = "ready" /\ query = q

(***************************************************************************)
(* What the mapping lines of the text mean, value by value: a value of     *)
(* type t is moved by the line of t whose half-open source interval holds  *)
(* it, and stays as it is when no line holds it.                           *)
(***************************************************************************)
Covers(l, t, v) ==
    l.source = t /\ l.source_start <= v /\ v < l.source_start + l.length

\* every line has a positive length, and no two lines of a type overlap
WellFormed(ms) ==
    /\ \A l \in ms : l.length >= 1
    /\ \A l1, l2 \in ms :
          (l1 # l2 /\ l1.source = l2.source) =>
              \/ l1.source_start + l1.length <= l2.source_start
              \/ l2.source_start + l2.length <= l1.source_start

Translated(ms, t, v) ==
    IF \E l \in ms : Covers(l, t, v)
    THEN LET l == CHOOSE x \in ms : Covers(x, t, v)
         IN l.dest_start + (v - l.source_start)
    ELSE v

RECURSIVE LocationOf(_, _, _)
LocationOf(ms, t, v) ==
    IF t = Location THEN v ELSE LocationOf(ms, t + 1, Translated(ms, t, v))

Least(S) == CHOOSE v \in S : \A w \in S : v <= w
Max0(S) == CHOOSE v \in S : \A w \in S : v >= w

\* the values of the ranges [start, start+length) of a seeds line read as pairs
SeedsOfRanges(sd) ==
    UNION {sd[2 * i - 1] .. (sd[2 * i - 1] + sd[2 * i] - 1) : i \in 1..(Len(sd) \div 2)}

\* the seeds line holds complete pairs with lengths >= 1, and at least one
PairsLine(sd) ==
    /\ Len(sd) >= 2
    /\ Len(sd) % 2 = 0
    /\ \A i \in 1..(Len(sd) \div 2) : sd[2 * i] >= 1

\* the ranges walk hands to the next type for one range of one type
HandedOn(m, from, range) ==
    LET keys == walk_keys(m, from, range)
    IN IF keys = <<>> THEN {range}
       ELSE {new_range(keys[i].key, keys[i].value, range) : i \in 1..Len(keys)}

\* C1: for every table built from positive-length, per-type non-overlapping mappings
\* and every seeds line of (start, length) pairs with length >= 1, the range query
\* returns the least Location over every value of every range, each value
\* translated alone through the seven stages.
C1_RangesLeastLocation ==
    (Answered("ranges") /\ WellFormed(mappings) /\ PairsLine(seeds)) =>
        result = Some(Least({LocationOf(mappings, Seed, v) : v \in SeedsOfRanges(seeds)}))

\* C2: on the canonical example table with seeds [79, 14, 55, 13] the point query
\* get_lowest_location returns 35.
C2_ExamplePoints ==
    (Answered("points") /\ input = Example /\ seeds = EXAMPLE_SEEDS) => result = Some(35)

C2_Witness ==
    Answered("points") /\ input = Example /\ seeds = EXAMPLE_SEEDS /\ Len(map) > 18
    /\ result = Some(35)

\* C3: on the canonical example table with seeds [79, 14, 55, 13] read as the pairs
\* (79,14) and (55,13) the range query get_lowest_location_of_seed_ranges returns 46.
C3_ExampleRanges ==
    (Answered("ranges") /\ input = Example /\ seeds = EXAMPLE_SEEDS) => result = Some(46)

C3_Witness ==
    Answered("ranges") /\ input = Example /\ seeds = EXAMPLE_SEEDS /\ Len(map) > 18
    /\ result = Some(46)

\* C4: for every mapping line (src_start, len, dst_start) of a type and every s in
\* [src_start, src_start+len), the point probe [s,s) of that type is handed to the
\* next type as exactly dst_start + (s - src_start), whatever other lines exist.
C4_OneStage ==
    (Built /\ WellFormed(mappings)) =>
        \A l \in mappings :
            \A s \in l.source_start .. (l.source_start + l.length - 1) :
                LET d == l.dest_start + (s - l.source_start)
                IN HandedOn(map, l.source, Range(s, s)) = {Range(d, d)}

\* C5: a seed that lies in no mapping line's half-open source interval at any stage
\* is returned unchanged by the point query.
C5_UncoveredIdentity ==
    (/\ Answered("points")
     /\ WellFormed(mappings)
     /\ Len(seeds) = 1
     /\ \A l \in mappings : ~Covers(l, l.source, seeds[1])) =>
        result = Some(seeds[1])

\* C6: the range query on the single pair (s, 1) returns the Location the point
\* query returns for s.
C6_UnitRange ==
    (Answered("ranges") /\ WellFormed(mappings) /\ Len(seeds) = 2 /\ seeds[2] = 1) =>
        result = get_lowest_location(map, <<seeds[1]>>)

\* C7: for two mapping lines of one type with adjacent source intervals [a,b) and
\* [b,c), walk(type, [a,c)) is the lesser of walk(type, [a,b)) and walk(type, [b,c)).
C7_AdjacentSplit ==
    (Built /\ WellFormed(mappings)) =>
        \A l1, l2 \in mappings :
            (l1.source = l2.source /\ l1.source_start + l1.length = l2.source_start) =>
                LET a == l1.source_start
                    b == l2.source_start
                    c == l2.source_start + l2.length
                IN walk(map, l1.source, Range(a, c)) =
                     min({walk(map, l1.source, Range(a, b)),
                          walk(map, l1.source, Range(b, c))})

\* C8: the result of the range query does not depend on how the seed ranges are
\* scheduled: N workers (N = 1..8), in any interleaving and completion order,
\* followed by the fold, end with what the loop in list order returns.
C8_ScheduleIndependent ==
    query = "pool" => result = get_lowest_location_of_seed_ranges(map, seeds)

C8_Witness ==
    /\ query = "pool"
    /\ pc = "ready"
    /\ workers >= 2
    /\ Len(task) = 2
    /\ task[1].r < task[2].r
    /\ result = Some(task[1].r)
    /\ seeds = EXAMPLE_SEEDS

\* C9: with an empty seed list the range query returns None (an absent result),
\* not a number and not a failure.
C9_EmptyRangesNone ==
    (query = "ranges" /\ seeds = <<>>) => (pc = "ready" /\ result = None)

\* C10: with an empty seed list the point query returns None and does not fail;
\* with a non-empty seed list it returns Some value.
C10_PointsOption ==
    query = "points" =>
        /\ pc = "ready"
        /\ seeds = <<>> => result = None
        /\ seeds # <<>> => (Len(result) = 1 /\ result[1] \in Nat)

C10_Witness ==
    Answered("points") /\ seeds # <<>> /\ result # None /\ Len(map) >= 2

\* C11: building fails with an error whenever a mapping line has length 0: once
\* such a line has been read the build is in its failed state.
C11_ZeroLengthFails ==
    (\E l \in mappings : l.length = 0) => pc = "failed"

\* the pair a header names is a type and its successor in the chain
Adjacent(k) == next_variant(k[1]) = Some(k[2])

\* C12: building fails with an error whenever a section header names a pair of
\* types that is not a type and its chain successor, and every entry of the table
\* has as destination type the chain successor of its source type.
C12_AdjacentPairsOnly ==
    /\ (key # None /\ ~Adjacent(key)) => pc = "failed"
    /\ \A i \in DOMAIN map : next_variant(map[i].key.typ) = Some(map[i].value.typ)

C12_Witness ==
    /\ pc = "failed"
    /\ key # None
    /\ ~Adjacent(key)
    /\ Len(map) >= 2
    /\ \E i \in DOMAIN map : map[i].key.typ = Soil /\ map[i].value.typ = Fertilizer

\* two keys of one type whose half-open intervals share a value
Overlap(k1, k2) ==
    k1.typ = k2.typ /\ k1.start < k2.end /\ k2.start < k1.end

NoOverlap(m) == \A i, j \in DOMAIN m : i # j => ~Overlap(m[i].key, m[j].key)

\* C13: in every table reached by any sequence of add_translation calls for lines
\* of length > 0 (overlapping lines included) and gap-fill passes, no two stored
\* keys of one type overlap as half-open intervals.
C13_KeysDisjoint ==
    (\A l \in mappings : l.length >= 1) => NoOverlap(map)

C13_Witness ==
    /\ pc = "ready"
    /\ \A l \in mappings : l.length >= 1
    /\ \E l1, l2 \in mappings :
          /\ l1 # l2
          /\ l1.source = l2.source
          /\ l1.source_start < l2.source_start + l2.length
          /\ l2.source_start < l1.source_start + l1.length
    /\ Len(map) >= 2
    /\ NoOverlap(map)

\* C14: in every reachable table (lines with overlapping source intervals
\* included) the destination interval of each stored entry is as long as the
\* source interval of its key.
C14_EqualLengths ==
    (\A l \in mappings : l.length >= 1) =>
        \A i \in DOMAIN map :
            map[i].value.end - map[i].value.start = map[i].key.end - map[i].key.start

\* C15: when add_translation is called for a line whose source interval overlaps a
\* stored key, the new mapping replaces the old one: afterwards the table holds the
\* new source interval with the new destination interval, and the overlapped entry
\* is no longer in it.
C15_NewReplacesOld ==
    [][\A l \in Lines :
          LET k == new(source, l[2], l[2] + l[3])
              v == new(match_key(key)[1][2], l[1], l[1] + l[3])
              line == [source |-> source, dest_start |-> l[1], source_start |-> l[2],
                       length |-> l[3]]
              old == {i \in DOMAIN map : Overlap(map[i].key, k)}
          IN (/\ pc = "lines"
              /\ l[3] >= 1
              /\ \A x \in mappings : x.length >= 1
              /\ line \notin mappings
              /\ mappings' = mappings \cup {line}
              /\ old # {}) =>
                 /\ \E j \in DOMAIN map' : map'[j] = [key |-> k, value |-> v]
                 /\ \A i \in old : \A j \in DOMAIN map' : map'[j] # map[i]
      ]_vars

\* the stored entries of a type whose key interval holds v
Holding(m, t, v) ==
    {i \in DOMAIN m : m[i].key.typ = t /\ m[i].key.start <= v /\ v < m[i].key.end}

\* C16: after the gap-fill pass of a section, with B the largest source end among
\* the section's lines, every value of [0, B) lies in exactly one stored source
\* interval of the type, and a value no line covers lies in an identity entry.
C16_GapsFilled ==
    (pc = "header" /\ sec = 1 /\ mappings # {} /\ WellFormed(mappings)) =>
        LET B == Max0({l.source_start + l.length : l \in mappings})
        IN \A v \in 0..(B - 1) :
              /\ Cardinality(Holding(map, source, v)) = 1
              /\ (\A l \in mappings : ~Covers(l, source, v)) =>
                    \A i \in Holding(map, source, v) : map[i].value.start = map[i].key.start
                                                     /\ map[i].value.end = map[i].key.end

\* C17: the gap-fill pass is idempotent: for every table, a second pass for the
\* same type leaves the table exactly as the first pass left it.
C17_FillIdempotent ==
    pc = "header" => fill_gaps(map, source, match_key(key)[1][2]) = map

\* the calls of walk that walk(m, from, range) makes, itself included, each as
\* <<type, depth>>; followed to a depth of Location + 1, one more than the chain
\* has successors
RECURSIVE walk_calls(_, _, _, _)
walk_calls(m, from, range, depth) ==
    LET next == next_variant(from)
    IN {<<from, depth>>} \cup
       IF next = None \/ depth > Location THEN {}
       ELSE UNION {walk_calls(m, next[1], r, depth + 1) : r \in HandedOn(m, from, range)}

\* the ranges the queries start walk with: [s,s) per seed, [start,start+length) per pair
QueryRanges(sd) ==
    {Range(sd[i], sd[i]) : i \in DOMAIN sd}
      \cup {Range(sd[2 * i - 1], sd[2 * i - 1] + sd[2 * i]) : i \in 1..(Len(sd) \div 2)}

\* C18: every walk(type, range) terminates with a value: each call it makes is for
\* the chain successor of its caller's type, a call for Location makes none, and
\* so the depth of the recursion is at most 7.
C18_WalkTerminates ==
    Built =>
        \A t \in ValueType : \A r \in QueryRanges(seeds) :
            /\ \A c \in walk_calls(map, t, r, 0) :
                  /\ c[1] = t + c[2]
                  /\ c[2] <= 7
            /\ walk_calls(map, Location, r, 0) = {<<Location, 0>>}
            /\ Len(walk(map, t, r)) = 1

C18_Witness ==
    /\ Built
    /\ Len(seeds) = 2
    /\ Cardinality(HandedOn(map, Seed, Range(seeds[1], seeds[1] + seeds[2]))) >= 2
    /\ <<Location, 7>> \in walk_calls(map, Seed, Range(seeds[1], seeds[1] + seeds[2]), 0)
    /\ query = "ranges"

\* C19: the point and range queries never change the Almanac: across every step
\* taken once it is built the seeds and every entry of the table are unchanged, and
\* a query repeated returns the result it returned before.
C19_QueriesPure ==
    [][pc = "ready" =>
          /\ seeds' = seeds
          /\ map' = map
          /\ query' = query => result' = result]_vars

C19_Witness ==
    /\ pc = "ready"
    /\ query = "ranges"
    /\ Len(seeds) = 2
    /\ Len(map) >= 2
    /\ result = get_lowest_location_of_seed_ranges(map, seeds)
    /\ result # get_lowest_location(map, seeds)

\* the number of steps after which the walk from node, n steps done, first is at f
\* (None: not within MaxSteps steps, or the walk leaves the network)
RECURSIVE Arrival(_, _, _, _, _)
Arrival(ns, s, f, node, n) ==
    IF node = f THEN Some(n)
    ELSE IF n >= MaxSteps \/ s = <<>> \/ node \notin DOMAIN ns THEN None
    ELSE Arrival(ns, s, f, index(ns[node], s[(n % Len(s)) + 1]), n + 1)

\* C20: for every network and instruction sequence, find_steps_required_for
\* returns the number of single steps, the sequence repeated cyclically from the
\* first node, after which the walk first is at the node looked for.
C20_FirstArrival ==
    npc = "returned" => Some(steps) = Arrival(nodes, seq, find, first_key(nodes), 0)

\* C21: for every race, find_winning_conditions_amount ends by returning the
\* number of hold times h in 0..time with h * (time - h) > distance, 0 when no
\* hold time wins.
C21_WinningHoldTimes ==
    rpc \in {"returned", "panicked"} =>
        /\ rpc = "returned"
        /\ winning = Cardinality({h \in 0..time : h * (time - h) > distance})

\* the instances of card i there are in the end: the card itself, and one copy per
\* instance of every earlier card j whose matching numbers reach i
RECURSIVE Instances(_, _)
Instances(cs, i) ==
    1 + sum([j \in 1..(i - 1) |->
               IF i - j <= total_winning_numbers(cs[j]) THEN Instances(cs, j) ELSE 0])

\* C22: on freshly parsed cards calculate_copies_and_get_total returns the number
\* of card instances there are when every instance of card i with w matching
\* numbers wins one copy of each of the cards i+1..i+w of the table (cards past
\* the end are ignored).
C22_TotalInstances ==
    cpc = "returned" => total = sum([i \in DOMAIN cards |-> Instances(cards, i)])

C22_Witness ==
    /\ cpc = "returned"
    /\ Len(cards) = Len(EXAMPLE_CARDS)
    /\ \A i \in DOMAIN cards : cards[i].winning_numbers = EXAMPLE_CARDS[i].winning_numbers
    /\ total = 30

\* the ranges [start, start+length) of the complete pairs of a seeds line that
\* hold a value
PairRanges(sd) ==
    {Range(sd[2 * i - 1], sd[2 * i - 1] + sd[2 * i]) :
        i \in {j \in 1..(Len(sd) \div 2) : sd[2 * j] >= 1}}

\* C23: a value of the probed range that no stored entry of the type covers is
\* carried on to the next type unchanged, also when other values of the range
\* are covered: it lies in one of the ranges walk hands on.
C23_UncoveredCarried ==
    (Built /\ WellFormed(mappings)) =>
        \A r \in PairRanges(seeds) : \A v \in r.start..(r.end - 1) :
            Holding(map, Seed, v) = {} =>
                \E h \in HandedOn(map, Seed, r) : h.start <= v /\ v < h.end

\* the key's half-open interval and the half-open range share a value
Intersects(k, range) == k.start < range.end /\ range.start < k.end

\* C24: the entries walk selects for (type, range) are exactly the stored entries
\* of the type whose source interval intersects the range as half-open intervals
\* (touching at an end point is not intersecting), in ascending order of start.
C24_SelectsIntersecting ==
    (Built /\ WellFormed(mappings)) =>
        \A r \in PairRanges(seeds) :
            walk_keys(map, Seed, r) =
                SelectSeq(map, LAMBDA e : e.key.typ = Seed /\ Intersects(e.key, r))

\* the ordering of two keys as stated: by type first; for one type Equal when the
\* half-open intervals share a value, Less when the left ends at or before the
\* start of the right, Greater otherwise
Ordering(a, b) ==
    IF a.typ < b.typ THEN "Less"
    ELSE IF a.typ > b.typ THEN "Greater"
    ELSE IF \E v \in 0..(MaxVal + MaxLen) :
               a.start <= v /\ v < a.end /\ b.start <= v /\ v < b.end
         THEN "Equal"
    ELSE IF a.end <= b.start THEN "Less"
    ELSE "Greater"

\* C25: for any two keys with start <= end (zero-length included) cmp orders by
\* type first, and for one type returns Equal exactly when the two half-open
\* intervals share a value, Less when the left ends at or before the start of the
\* right, Greater otherwise: here for the key of every line read against every
\* stored key.
C25_CmpOrdering ==
    \A l \in mappings : \A i \in DOMAIN map :
        LET k == new(l.source, l.source_start, l.source_start + l.length)
        IN cmp(k, map[i].key) = Ordering(k, map[i].key)

\* the seeds line cut to its complete pairs
CompletePairs(sd) == SubSeq(sd, 1, 2 * (Len(sd) \div 2))

\* C26: for every seeds line, of even or odd length, the range query completes
\* without an out-of-bounds access and resolves exactly the ranges of the complete
\* (start, length) pairs.
C26_CompletePairsOnly ==
    query = "ranges" =>
        /\ pc = "ready"
        /\ result = get_lowest_location_of_seed_ranges(map, CompletePairs(seeds))

\* C27: the value the range query returns is the Location of a seed of one of the
\* ranges [start, start+length) of the seeds line.
C27_LocationOfASeed ==
    (Answered("ranges") /\ WellFormed(mappings) /\ PairsLine(seeds)) =>
        \E v \in SeedsOfRanges(seeds) : result = Some(LocationOf(mappings, Seed, v))

\* C28: walk(type, range) returns Some value for every type, every table and every
\* range with start <= end, so the range query never leaves its loop on a None.
C28_WalkSome ==
    Built =>
        /\ \A t \in ValueType : \A a \in 0..(MaxVal + MaxLen) : \A b \in a..(MaxVal + MaxLen) :
              walk(map, t, Range(a, b)) # None
        /\ query = "ranges" => result # None

C28_Witness ==
    /\ Answered("ranges")
    /\ Len(seeds) = 2
    /\ seeds[2] = 0
    /\ Len(walk_keys(map, Seed, Range(seeds[1], seeds[1]))) >= 2
    /\ result # None

\* the arguments <<type, range>> of the recursive calls walk(m, from, range) makes,
\* at any depth
RECURSIVE walk_args(_, _, _, _)
walk_args(m, from, range, depth) ==
    LET next == next_variant(from)
    IN IF next = None \/ depth > Location THEN {}
       ELSE LET handed == HandedOn(m, from, range)
            IN {<<next[1], h>> : h \in handed}
                 \cup UNION {walk_args(m, next[1], h, depth + 1) : h \in handed}

\* C29: when the top-level range has start <= end and every stored key has
\* start <= end, every range passed to a recursive call of walk has start <= end.
C29_RangesOrdered ==
    (Built /\ \A i \in DOMAIN map : map[i].key.start <= map[i].key.end) =>
        \A t \in ValueType : \A r \in QueryRanges(seeds) :
            r.start <= r.end =>
                \A c \in walk_args(map, t, r, 0) : c[2].start <= c[2].end

C29_Witness ==
    /\ Built
    /\ Len(seeds) = 2
    /\ seeds[2] >= 1
    /\ LET r == Range(seeds[1], seeds[1] + seeds[2])
       IN /\ Len(walk_keys(map, Seed, r)) >= 2
          /\ \E c \in walk_args(map, Seed, r, 0) :
                c[1] = Location /\ c[2].start < c[2].end /\ c[2] # r

\* every entry's value interval is as long as its key interval
EqualLengths(m) ==
    \A i \in DOMAIN m : m[i].value.end - m[i].value.start = m[i].key.end - m[i].key.start

\* C30: when every entry's key and value intervals have equal length (and the
\* value ends within u64), the translation in walk neither underflows nor
\* overflows: where diff is subtracted both clipped bounds are >= diff, and the
\* translated range lies within [value.start, value.end].
C30_TranslationInBounds ==
    (Built /\ EqualLengths(map)) =>
        \A r0 \in QueryRanges(seeds) :
            \A c \in {<<Seed, r0>>} \cup walk_args(map, Seed, r0, 0) :
                LET keys == walk_keys(map, c[1], c[2])
                IN \A i \in DOMAIN keys :
                      LET k == keys[i].key
                          v == keys[i].value
                          diff == abs_diff(v.start, k.start)
                          n == new_range(k, v, c[2])
                      IN /\ ~(k.start < v.start) =>
                               /\ Max(k.start, c[2].start) >= diff
                               /\ Min(k.end, c[2].end) >= diff
                         /\ v.start <= n.start
                         /\ n.start <= n.end
                         /\ n.end <= v.end
                         /\ n.end <= U64_MAX

C30_Witness ==
    /\ Built
    /\ EqualLengths(map)
    /\ Len(seeds) = 2
    /\ seeds[2] >= 1
    /\ LET r == Range(seeds[1], seeds[1] + seeds[2])
           keys == walk_keys(map, Seed, r)
       IN \E i \in DOMAIN keys :
             /\ keys[i].key.start > keys[i].value.start
             /\ keys[i].key.start < r.start
             /\ r.start < keys[i].key.end

====
